---- MODULE Spec2Model ----
(***************************************************************************)
(* Message transport of the DHT node (dht_net.go).                         *)
(*                                                                         *)
(* Client path: sendRequest / sendMessage take a stream from the per-peer  *)
(* stream pool (getStream), write on it, and either put it back or reset   *)
(* it.  sendRequest races the reply channel against ctx.Done() and, when   *)
(* the context wins, leaves a detached goroutine waiting on the channel.   *)
(*                                                                         *)
(* Server path: handleNewStream runs handleNewMessage, the read/dispatch/  *)
(* respond loop of one inbound stream.                                     *)
(*                                                                         *)
(* The stream type (request, send, reset, err), newStream and the stream   *)
(* pool (get, put) are not part of dht_net.go; they are modelled from the  *)
(* design document (sections 3, 4.2, 4.3).                                 *)
(***************************************************************************)
EXTENDS Naturals, Sequences, FiniteSets

\* ------------------------------------------------------------------ bounds
NumCalls == 2          \* client calls (goroutines calling sendRequest/sendMessage)
MaxReqs == 3           \* frames the remote delivers on the inbound stream

Calls == 1..NumCalls
Sessions == 1..NumCalls        \* every call opens at most one new stream
Peers == {"pA", "pB"}
NoSession == 0

\* Idle streams the pool keeps per peer; past it the oldest idle one is evicted.
PoolCap == 1

VARIABLES
  \* --- client side
  streamPool,   \* dht.streamPool: peer -> sequence of idle streams, oldest first
  sstate,       \* stream -> "unborn" | "out" (checked out) | "idle" | "destroyed"
  pc,           \* call -> position in sendRequest / sendMessage
  op,           \* call -> "sendRequest" | "sendMessage" | "none"
  cpeer,        \* call -> p, the peer argument
  ps,           \* call -> the stream returned by getStream (local ps)
  ctxDone,      \* call -> ctx.Done() is closed
  replyChan,    \* call -> "nil" | "empty" | "value" | "closed" | "drained"
  ret,          \* call -> what the call returned
  cont,         \* call -> detached goroutine: "none" | "waiting" | "onReply" | "done"
  fx,           \* call -> counters of the side effects made on behalf of the call
  rt,           \* peers refreshed in the routing table by dht.Update
  \* --- server side
  hpc,          \* position of handleNewStream / handleNewMessage
  input,        \* the frames the remote sends on the inbound stream, in order
  inEnd,        \* what follows them: "eof" | "err" | "toolarge" | "idle" (nothing)
  nread,        \* number of frames ReadMsg has returned so far
  out,          \* indices (into input) of the response frames flushed, in order
  wbuf,         \* response frames buffered by WriteMsg and not yet flushed
  updated,      \* indices (into input) for which updateFromMessage ran, in order
  hret,         \* result of handleNewMessage: "none" | "true" | "false"
  wfail,        \* a WriteMsg or Flush on the inbound stream has failed
  mPeer,        \* s.Conn().RemotePeer() of the inbound stream
  sclose,       \* number of s.Close() calls on the inbound stream
  sreset        \* number of s.Reset() calls on the inbound stream

cvars == <<streamPool, sstate, pc, op, cpeer, ps, ctxDone, replyChan, ret, cont, fx, rt>>
svars == <<hpc, input, inEnd, nread, out, wbuf, updated, hret, wfail, mPeer, sclose, sreset>>
vars == <<streamPool, sstate, pc, op, cpeer, ps, ctxDone, replyChan, ret, cont, fx, rt,
          hpc, input, inEnd, nread, out, wbuf, updated, hret, wfail, mPeer, sclose, sreset>>

NoFx == [put |-> 0, reset |-> 0, upd |-> 0, lat |-> 0, recv |-> 0, crecv |-> 0]

\* ------------------------------------------------------------ stream pool
\* pool.get(p): the idle streams of p that may be handed out.
poolIdle(pool, p) == {pool[p][i] : i \in 1..Len(pool[p])}

\* The pool without stream s.
poolRemove(pool, p, s) ==
  [pool EXCEPT ![p] = SelectSeq(pool[p], LAMBDA x : x # s)]

\* pool.put(ps, p): s joins the idle streams of p; past PoolCap the oldest idle
\* stream is evicted.
poolEvicted(pool, p) ==
  IF Len(pool[p]) >= PoolCap THEN {Head(pool[p])} ELSE {}

poolPut(pool, p, s) ==
  [pool EXCEPT ![p] =
     IF Len(pool[p]) >= PoolCap THEN Append(Tail(pool[p]), s)
                                ELSE Append(pool[p], s)]

\* State of the streams after pool.put(s, p): s is idle, an evicted stream is closed.
putStates(st, pool, p, s) ==
  [x \in Sessions |->
     IF x = s THEN "idle"
     ELSE IF x \in poolEvicted(pool, p) THEN "destroyed"
     ELSE st[x]]

\* ps.reset(): the stream is torn down; idempotent.
resetStates(st, s) == [st EXCEPT ![s] = "destroyed"]

\* ------------------------------------------------------ peer bookkeeping
\* peerstore.SupportsProtocols(p, dht.protocolStrs()...): pA is a DHT server,
\* pB is only a client.
SupportsProtocols(p) == p = "pA"

\* updateFromMessage: refresh p in the routing table (dht.Update) when the
\* peerstore says p speaks one of the DHT protocols.
updateFromMessage(table, p) == IF SupportsProtocols(p) THEN table \cup {p} ELSE table

\* ------------------------------------------------------------------- Init
Init ==
  /\ streamPool = [p \in Peers |-> <<>>]
  /\ sstate = [s \in Sessions |-> "unborn"]
  /\ pc = [c \in Calls |-> "idle"]
  /\ op = [c \in Calls |-> "none"]
  /\ cpeer = [c \in Calls |-> "pA"]
  /\ ps = [c \in Calls |-> NoSession]
  /\ ctxDone = [c \in Calls |-> FALSE]
  /\ replyChan = [c \in Calls |-> "nil"]
  /\ ret = [c \in Calls |-> "none"]
  /\ cont = [c \in Calls |-> "none"]
  /\ fx = [c \in Calls |-> NoFx]
  /\ rt = {}
  /\ hpc = "start"
  /\ input = <<>>
  /\ inEnd = "eof"
  /\ nread = 0
  /\ out = <<>>
  /\ wbuf = <<>>
  /\ updated = <<>>
  /\ hret = "none"
  /\ wfail = FALSE
  /\ mPeer = "pA"
  /\ sclose = 0
  /\ sreset = 0

\* =========================================================== client path
\* A caller enters sendRequest or sendMessage for peer p.  Calls are
\* interchangeable, so they are numbered in the order they start.
Start(c) ==
  /\ pc[c] = "idle"
  /\ \A d \in Calls : d < c => pc[d] # "idle"
  /\ \E o \in {"sendRequest", "sendMessage"}, p \in Peers :
       /\ op' = [op EXCEPT ![c] = o]
       /\ cpeer' = [cpeer EXCEPT ![c] = p]
  /\ pc' = [pc EXCEPT ![c] = "getStream"]
  /\ UNCHANGED <<streamPool, sstate, ps, ctxDone, replyChan, ret, cont, fx, rt>>
  /\ UNCHANGED svars

\* getStream ignoring the pool and always opening a new stream.
getStream_AlwaysNew(c) ==
  /\ pc[c] = "getStream"
  /\ pc' = [pc EXCEPT ![c] = "newStream"]
  /\ UNCHANGED <<streamPool, sstate, ps, op, cpeer, ctxDone, replyChan, ret, cont, fx, rt>>
  /\ UNCHANGED svars

\* getStream waiting for a pooled stream instead of opening a new one.
getStream_Wait(c) ==
  /\ pc[c] = "getStream"
  /\ \E s \in poolIdle(streamPool, cpeer[c]) :
       /\ streamPool' = poolRemove(streamPool, cpeer[c], s)
       /\ sstate' = [sstate EXCEPT ![s] = "out"]
       /\ ps' = [ps EXCEPT ![c] = s]
       /\ pc' = [pc EXCEPT ![c] = "write"]
  /\ UNCHANGED <<op, cpeer, ctxDone, replyChan, ret, cont, fx, rt>>
  /\ UNCHANGED svars

\* getStream: streamPool.get(ctx, p); a pooled stream leaves the pool, and with
\* none idle the call goes on to newStream.
getStream(c) ==
  /\ pc[c] = "getStream"
  /\ IF poolIdle(streamPool, cpeer[c]) # {}
       THEN \E s \in poolIdle(streamPool, cpeer[c]) :
              /\ streamPool' = poolRemove(streamPool, cpeer[c], s)
              /\ sstate' = [sstate EXCEPT ![s] = "out"]
              /\ ps' = [ps EXCEPT ![c] = s]
              /\ pc' = [pc EXCEPT ![c] = "write"]
       ELSE /\ pc' = [pc EXCEPT ![c] = "newStream"]
            /\ UNCHANGED <<streamPool, sstate, ps>>
  /\ UNCHANGED <<op, cpeer, ctxDone, replyChan, ret, cont, fx, rt>>
  /\ UNCHANGED svars

\* dht.newStream(ctx, p): a fresh stream to p, or the dial error, which
\* sendRequest / sendMessage return unchanged.
newStream(c) ==
  /\ pc[c] = "newStream"
  /\ \/ \E s \in Sessions :
          /\ sstate[s] = "unborn"
          /\ \A x \in Sessions : x < s => sstate[x] # "unborn"
          /\ sstate' = [sstate EXCEPT ![s] = "out"]
          /\ ps' = [ps EXCEPT ![c] = s]
          /\ pc' = [pc EXCEPT ![c] = "write"]
          /\ UNCHANGED ret
     \/ /\ ret' = [ret EXCEPT ![c] = "dialErr"]
        /\ pc' = [pc EXCEPT ![c] = "done"]
        /\ UNCHANGED <<sstate, ps>>
  /\ UNCHANGED <<streamPool, op, cpeer, ctxDone, replyChan, cont, fx, rt>>
  /\ UNCHANGED svars

\* sendRequest returning the request error without resetting the stream.
request_NoReset(c) ==
  /\ pc[c] = "write"
  /\ op[c] = "sendRequest"
  /\ \/ /\ replyChan' = [replyChan EXCEPT ![c] = "empty"]
        /\ pc' = [pc EXCEPT ![c] = "select"]
        /\ UNCHANGED ret
     \/ /\ ret' = [ret EXCEPT ![c] = "writeErr"]
        /\ pc' = [pc EXCEPT ![c] = "done"]
        /\ UNCHANGED replyChan
  /\ UNCHANGED <<streamPool, sstate, op, cpeer, ps, ctxDone, cont, fx, rt>>
  /\ UNCHANGED svars

\* ps.request(ctx, req) and its error branch: on success the reply channel is
\* returned and the stream awaits the reply; on a write or flush error the
\* stream is reset and the error returned.
request(c) ==
  /\ pc[c] = "write"
  /\ op[c] = "sendRequest"
  /\ \/ /\ replyChan' = [replyChan EXCEPT ![c] = "empty"]
        /\ pc' = [pc EXCEPT ![c] = "select"]
        /\ UNCHANGED <<sstate, ret, fx>>
     \/ /\ sstate' = resetStates(sstate, ps[c])
        /\ fx' = [fx EXCEPT ![c].reset = @ + 1]
        /\ ret' = [ret EXCEPT ![c] = "writeErr"]
        /\ pc' = [pc EXCEPT ![c] = "done"]
        /\ UNCHANGED replyChan
  /\ UNCHANGED <<streamPool, op, cpeer, ps, ctxDone, cont, rt>>
  /\ UNCHANGED svars

\* The caller's context is cancelled while the call is in its select.
ctxCancel(c) ==
  /\ pc[c] = "select"
  /\ ~ctxDone[c]
  /\ ctxDone' = [ctxDone EXCEPT ![c] = TRUE]
  /\ UNCHANGED <<streamPool, sstate, pc, op, cpeer, ps, replyChan, ret, cont, fx, rt>>
  /\ UNCHANGED svars

\* The stream's read continuation publishes the reply frame on the channel.
replyArrives(c) ==
  /\ replyChan[c] = "empty"
  /\ replyChan' = [replyChan EXCEPT ![c] = "value"]
  /\ UNCHANGED <<streamPool, sstate, pc, op, cpeer, ps, ctxDone, ret, cont, fx, rt>>
  /\ UNCHANGED svars

\* The stream fails while the reply is awaited: it records its terminal error,
\* is destroyed, and the channel is closed without a value.
streamDies(c) ==
  /\ replyChan[c] = "empty"
  /\ replyChan' = [replyChan EXCEPT ![c] = "closed"]
  /\ sstate' = resetStates(sstate, ps[c])
  /\ UNCHANGED <<streamPool, pc, op, cpeer, ps, ctxDone, ret, cont, fx, rt>>
  /\ UNCHANGED svars

\* onReply that forgets streamPool.put.
onReply_NoPut(c) ==
  /\ rt' = updateFromMessage(rt, cpeer[c])
  /\ fx' = [fx EXCEPT ![c].upd = @ + 1, ![c].lat = @ + 1]
  /\ UNCHANGED <<streamPool, sstate>>

\* onReply: put the stream back, update the peer from the reply, record the RTT.
onReply(c) ==
  /\ streamPool' = poolPut(streamPool, cpeer[c], ps[c])
  /\ sstate' = putStates(sstate, streamPool, cpeer[c], ps[c])
  /\ rt' = updateFromMessage(rt, cpeer[c])
  /\ fx' = [fx EXCEPT ![c].put = @ + 1, ![c].upd = @ + 1, ![c].lat = @ + 1]

\* select, case reply, ok := <-replyChan with ok: the reply is received.
selectReply(c) ==
  /\ pc[c] = "select"
  /\ replyChan[c] = "value"
  /\ replyChan' = [replyChan EXCEPT ![c] = "drained"]
  /\ fx' = [fx EXCEPT ![c].recv = @ + 1]
  /\ pc' = [pc EXCEPT ![c] = "onReply"]
  /\ UNCHANGED <<streamPool, sstate, op, cpeer, ps, ctxDone, ret, cont, rt>>
  /\ UNCHANGED svars

\* onReply(reply); return reply, nil
returnReply(c) ==
  /\ pc[c] = "onReply"
  /\ onReply(c)
  /\ ret' = [ret EXCEPT ![c] = "reply"]
  /\ pc' = [pc EXCEPT ![c] = "done"]
  /\ UNCHANGED <<op, cpeer, ps, ctxDone, replyChan, cont>>
  /\ UNCHANGED svars

\* The closed-channel branch putting the dead stream back into the pool.
selectClosed_Put(c) ==
  /\ pc[c] = "select"
  /\ replyChan[c] = "closed"
  /\ streamPool' = poolPut(streamPool, cpeer[c], ps[c])
  /\ sstate' = putStates(sstate, streamPool, cpeer[c], ps[c])
  /\ fx' = [fx EXCEPT ![c].recv = @ + 1, ![c].put = @ + 1]
  /\ ret' = [ret EXCEPT ![c] = "streamErr"]
  /\ pc' = [pc EXCEPT ![c] = "done"]
  /\ UNCHANGED <<op, cpeer, ps, ctxDone, replyChan, cont, rt>>
  /\ UNCHANGED svars

\* select, case reply, ok := <-replyChan with !ok: return nil, ps.err()
selectClosed(c) ==
  /\ pc[c] = "select"
  /\ replyChan[c] = "closed"
  /\ fx' = [fx EXCEPT ![c].recv = @ + 1]
  /\ ret' = [ret EXCEPT ![c] = "streamErr"]
  /\ pc' = [pc EXCEPT ![c] = "done"]
  /\ UNCHANGED <<streamPool, sstate, op, cpeer, ps, ctxDone, replyChan, cont, rt>>
  /\ UNCHANGED svars

\* The cancellation branch returning without starting the goroutine.
selectCancel_NoGo(c) ==
  /\ pc[c] = "select"
  /\ ctxDone[c]
  /\ ret' = [ret EXCEPT ![c] = "ctxErr"]
  /\ pc' = [pc EXCEPT ![c] = "done"]
  /\ UNCHANGED <<streamPool, sstate, op, cpeer, ps, ctxDone, replyChan, cont, fx, rt>>
  /\ UNCHANGED svars

\* The cancellation branch running onReply itself before it starts the
\* goroutine, which runs it again when the reply comes.
selectCancel_OnReply(c) ==
  /\ pc[c] = "select"
  /\ ctxDone[c]
  /\ streamPool' = poolPut(streamPool, cpeer[c], ps[c])
  /\ sstate' = putStates(sstate, streamPool, cpeer[c], ps[c])
  /\ rt' = updateFromMessage(rt, cpeer[c])
  /\ fx' = [fx EXCEPT ![c].put = @ + 1, ![c].upd = @ + 1, ![c].lat = @ + 1]
  /\ cont' = [cont EXCEPT ![c] = "waiting"]
  /\ ret' = [ret EXCEPT ![c] = "ctxErr"]
  /\ pc' = [pc EXCEPT ![c] = "done"]
  /\ UNCHANGED <<op, cpeer, ps, ctxDone, replyChan>>
  /\ UNCHANGED svars

\* The cancellation branch resetting the stream before it returns.
selectCancel_Reset(c) ==
  /\ pc[c] = "select"
  /\ ctxDone[c]
  /\ sstate' = resetStates(sstate, ps[c])
  /\ fx' = [fx EXCEPT ![c].reset = @ + 1]
  /\ cont' = [cont EXCEPT ![c] = "waiting"]
  /\ ret' = [ret EXCEPT ![c] = "ctxErr"]
  /\ pc' = [pc EXCEPT ![c] = "done"]
  /\ UNCHANGED <<streamPool, op, cpeer, ps, ctxDone, replyChan, rt>>
  /\ UNCHANGED svars

\* The cancellation branch handing the stream back to the pool at once, while
\* its reply is still outstanding.
selectCancel_Put(c) ==
  /\ pc[c] = "select"
  /\ ctxDone[c]
  /\ streamPool' = poolPut(streamPool, cpeer[c], ps[c])
  /\ sstate' = putStates(sstate, streamPool, cpeer[c], ps[c])
  /\ cont' = [cont EXCEPT ![c] = "waiting"]
  /\ ret' = [ret EXCEPT ![c] = "ctxErr"]
  /\ pc' = [pc EXCEPT ![c] = "done"]
  /\ UNCHANGED <<op, cpeer, ps, ctxDone, replyChan, fx, rt>>
  /\ UNCHANGED svars

\* select, case <-ctx.Done(): start the detached goroutine, return nil, ctx.Err()
selectCancel(c) ==
  /\ pc[c] = "select"
  /\ ctxDone[c]
  /\ cont' = [cont EXCEPT ![c] = "waiting"]
  /\ ret' = [ret EXCEPT ![c] = "ctxErr"]
  /\ pc' = [pc EXCEPT ![c] = "done"]
  /\ UNCHANGED <<streamPool, sstate, op, cpeer, ps, ctxDone, replyChan, fx, rt>>
  /\ UNCHANGED svars

\* The detached goroutine dropping the late reply instead of calling onReply.
goReceive_Drop(c) ==
  /\ cont[c] = "waiting"
  /\ replyChan[c] \in {"value", "closed"}
  /\ IF replyChan[c] = "value"
       THEN replyChan' = [replyChan EXCEPT ![c] = "drained"]
       ELSE UNCHANGED replyChan
  /\ cont' = [cont EXCEPT ![c] = "done"]
  /\ fx' = [fx EXCEPT ![c].crecv = @ + 1]
  /\ UNCHANGED <<streamPool, sstate, pc, op, cpeer, ps, ctxDone, ret, rt>>
  /\ UNCHANGED svars

\* The detached goroutine waiting for a value only: a closed channel never
\* ends it.
goReceive_ValueOnly(c) ==
  /\ cont[c] = "waiting"
  /\ replyChan[c] = "value"
  /\ replyChan' = [replyChan EXCEPT ![c] = "drained"]
  /\ cont' = [cont EXCEPT ![c] = "onReply"]
  /\ fx' = [fx EXCEPT ![c].crecv = @ + 1]
  /\ UNCHANGED <<streamPool, sstate, pc, op, cpeer, ps, ctxDone, ret, rt>>
  /\ UNCHANGED svars

\* The detached goroutine: reply, ok := <-replyChan
goReceive(c) ==
  /\ cont[c] = "waiting"
  /\ replyChan[c] \in {"value", "closed"}
  /\ IF replyChan[c] = "value"
       THEN /\ replyChan' = [replyChan EXCEPT ![c] = "drained"]
            /\ cont' = [cont EXCEPT ![c] = "onReply"]
       ELSE /\ cont' = [cont EXCEPT ![c] = "done"]
            /\ UNCHANGED replyChan
  /\ fx' = [fx EXCEPT ![c].crecv = @ + 1]
  /\ UNCHANGED <<streamPool, sstate, pc, op, cpeer, ps, ctxDone, ret, rt>>
  /\ UNCHANGED svars

\* The detached goroutine: if ok { onReply(reply) }
goOnReply(c) ==
  /\ cont[c] = "onReply"
  /\ onReply(c)
  /\ cont' = [cont EXCEPT ![c] = "done"]
  /\ UNCHANGED <<pc, op, cpeer, ps, ctxDone, replyChan, ret>>
  /\ UNCHANGED svars

\* sendMessage leaving the stream alone when ps.send failed.
send_NoReset(c) ==
  /\ pc[c] = "write"
  /\ op[c] = "sendMessage"
  /\ \/ /\ streamPool' = poolPut(streamPool, cpeer[c], ps[c])
        /\ sstate' = putStates(sstate, streamPool, cpeer[c], ps[c])
        /\ fx' = [fx EXCEPT ![c].put = @ + 1]
        /\ ret' = [ret EXCEPT ![c] = "nil"]
     \/ /\ ret' = [ret EXCEPT ![c] = "writeErr"]
        /\ UNCHANGED <<streamPool, sstate, fx>>
  /\ pc' = [pc EXCEPT ![c] = "done"]
  /\ UNCHANGED <<op, cpeer, ps, ctxDone, replyChan, cont, rt>>
  /\ UNCHANGED svars

\* sendMessage putting the stream back whatever ps.send returned.
send_AlwaysPut(c) ==
  /\ pc[c] = "write"
  /\ op[c] = "sendMessage"
  /\ streamPool' = poolPut(streamPool, cpeer[c], ps[c])
  /\ sstate' = putStates(sstate, streamPool, cpeer[c], ps[c])
  /\ fx' = [fx EXCEPT ![c].put = @ + 1]
  /\ \E r \in {"nil", "writeErr"} : ret' = [ret EXCEPT ![c] = r]
  /\ pc' = [pc EXCEPT ![c] = "done"]
  /\ UNCHANGED <<op, cpeer, ps, ctxDone, replyChan, cont, rt>>
  /\ UNCHANGED svars

\* sendMessage after getStream: ps.send(pmes), then put on success, reset on error.
send(c) ==
  /\ pc[c] = "write"
  /\ op[c] = "sendMessage"
  /\ \/ /\ streamPool' = poolPut(streamPool, cpeer[c], ps[c])
        /\ sstate' = putStates(sstate, streamPool, cpeer[c], ps[c])
        /\ fx' = [fx EXCEPT ![c].put = @ + 1]
        /\ ret' = [ret EXCEPT ![c] = "nil"]
     \/ /\ sstate' = resetStates(sstate, ps[c])
        /\ fx' = [fx EXCEPT ![c].reset = @ + 1]
        /\ ret' = [ret EXCEPT ![c] = "writeErr"]
        /\ UNCHANGED streamPool
  /\ pc' = [pc EXCEPT ![c] = "done"]
  /\ UNCHANGED <<op, cpeer, ps, ctxDone, replyChan, cont, rt>>
  /\ UNCHANGED svars

sendRequest(c) ==
  \/ request(c)
  \/ selectReply(c)
  \/ returnReply(c)
  \/ selectClosed(c)
  \/ selectCancel(c)

ClientNext ==
  \E c \in Calls :
    \/ Start(c)
    \/ getStream(c)
    \/ newStream(c)
    \/ sendRequest(c)
    \/ send(c)
    \/ ctxCancel(c)
    \/ replyArrives(c)
    \/ streamDies(c)
    \/ goReceive(c)
    \/ goOnReply(c)

ClientSpec == Init /\ [][ClientNext]_vars

\* Fairness of the client side: the Go scheduler runs every runnable goroutine
\* (the callers and the detached goroutines), and every awaited reply channel
\* eventually yields or closes.  Nothing forces a context to be cancelled.
ClientFair ==
  \A c \in Calls :
    /\ WF_vars(getStream(c) \/ newStream(c) \/ sendRequest(c) \/ send(c))
    /\ WF_vars(goReceive(c) \/ goOnReply(c))
    /\ WF_vars(replyArrives(c) \/ streamDies(c))

ClientFairSpec == Init /\ [][ClientNext]_vars /\ ClientFair

\* =========================================================== server path
\* What one inbound frame is to the dispatcher: its type has a handler that
\* returns a response ("resp"), a handler that returns no response ("noresp"),
\* a handler that returns an error ("herr"), or no handler ("unknown").
Kinds == {"resp", "noresp", "herr", "unknown"}

\* handlerForMsgType(req.GetType()) # nil
hasHandler(k) == k # "unknown"

\* The loop writing a frame for every handled request, response or not.
afterRead_WriteAlways(k) ==
  IF ~hasHandler(k) THEN "false"
  ELSE IF k = "herr" THEN "false"
  ELSE "write"

\* The loop skipping a request of unknown type and reading on.
afterRead_SkipUnknown(k) ==
  IF ~hasHandler(k) THEN "read"
  ELSE IF k = "herr" THEN "false"
  ELSE IF k = "noresp" THEN "read"
  ELSE "write"

\* One turn of the loop after ReadMsg returned nil: handler lookup, handler
\* call, and where the loop goes: "false" is return false, "read" is continue,
\* "write" is the response write.
afterRead(k) ==
  IF ~hasHandler(k) THEN "false"
  ELSE IF k = "herr" THEN "false"
  ELSE IF k = "noresp" THEN "read"
  ELSE "write"

\* updateFromMessage placed after the resp == nil test: skipped for a request
\* without response.
runsUpdate_OnlyResp(k) == k = "resp"

\* dht.updateFromMessage(ctx, mPeer, &req) runs once the handler returned no error.
runsUpdate(k) == hasHandler(k) /\ k # "herr"

\* The inputs an inbound stream can carry: up to MaxReqs frames.
Inputs == UNION {[1..n -> Kinds] : n \in 0..MaxReqs}

\* What follows the frames: the remote closes its write side ("eof"), the read
\* fails ("err": stream reset, cancelled node context), the next frame declares
\* a length above inet.MessageSizeMax ("toolarge"), or the remote stays silent
\* with the stream open ("idle").
Ends == {"eof", "err", "toolarge", "idle"}

\* The switch on ReadMsg's error treating every error as end-of-input.
readResult_AllClean(e) == "true"

\* The switch on ReadMsg's error: io.EOF returns true, any other error false.
readResult(e) == IF e = "eof" THEN "true" ELSE "false"

\* A read with a deadline: it never blocks for good.
readBlocks_Deadline == FALSE

\* r.ReadMsg blocks: no frame is left, the stream is open and silent, and the
\* reader (ctxio over the node's context) carries no deadline.
readBlocks == nread = Len(input) /\ inEnd = "idle"

\* handleNewStream is called with a new inbound stream from mPeer.
hStart ==
  /\ hpc = "start"
  /\ \E p \in Peers : mPeer' = p
  /\ \E i \in Inputs : input' = i
  /\ \E e \in Ends : inEnd' = e
  /\ hpc' = "read"
  /\ UNCHANGED <<nread, out, wbuf, updated, hret, wfail, sclose, sreset>>
  /\ UNCHANGED cvars

\* r.ReadMsg(&req) and the switch on its error: a frame (nil), io.EOF (return
\* true), or any other read error (return false): stream reset, cancelled
\* context, frame longer than inet.MessageSizeMax.
hRead ==
  /\ hpc = "read"
  /\ ~readBlocks
  /\ IF nread < Len(input)
       THEN /\ nread' = nread + 1
            /\ hpc' = "dispatch"
            /\ UNCHANGED hret
       ELSE /\ hret' = readResult(inEnd)
            /\ hpc' = "returned"
            /\ UNCHANGED nread
  /\ UNCHANGED <<input, inEnd, out, wbuf, updated, wfail, mPeer, sclose, sreset>>
  /\ UNCHANGED cvars

\* Handler lookup, handler call, updateFromMessage, and the resp == nil test.
hDispatch ==
  /\ hpc = "dispatch"
  /\ LET k == input[nread]
         nxt == afterRead(k)
     IN /\ IF runsUpdate(k)
             THEN /\ updated' = Append(updated, nread)
                  /\ rt' = updateFromMessage(rt, mPeer)
             ELSE UNCHANGED <<updated, rt>>
        /\ IF nxt = "false"
             THEN /\ hret' = "false"
                  /\ hpc' = "returned"
             ELSE /\ hpc' = nxt
                  /\ UNCHANGED hret
  /\ UNCHANGED <<input, inEnd, nread, out, wbuf, wfail, mPeer, sclose, sreset>>
  /\ UNCHANGED <<streamPool, sstate, pc, op, cpeer, ps, ctxDone, replyChan, ret, cont, fx>>

\* w.WriteMsg(resp): the frame goes into the write buffer, or the write fails.
hWrite ==
  /\ hpc = "write"
  /\ \/ /\ wbuf' = Append(wbuf, nread)
        /\ hpc' = "flush"
        /\ UNCHANGED <<hret, wfail>>
     \/ /\ wfail' = TRUE
        /\ hret' = "false"
        /\ hpc' = "returned"
        /\ UNCHANGED wbuf
  /\ UNCHANGED <<input, inEnd, nread, out, updated, mPeer, sclose, sreset>>
  /\ UNCHANGED cvars

\* w.Flush(): the buffered frames go onto the stream, or the flush fails.
hFlush ==
  /\ hpc = "flush"
  /\ \/ /\ out' = out \o wbuf
        /\ wbuf' = <<>>
        /\ hpc' = "read"
        /\ UNCHANGED <<hret, wfail>>
     \/ /\ wfail' = TRUE
        /\ hret' = "false"
        /\ hpc' = "returned"
        /\ UNCHANGED <<out, wbuf>>
  /\ UNCHANGED <<input, inEnd, nread, updated, mPeer, sclose, sreset>>
  /\ UNCHANGED cvars

handleNewMessage == hRead \/ hDispatch \/ hWrite \/ hFlush

\* handleNewStream after handleNewMessage returned: s.Close() when it returned true.
hClose ==
  /\ hpc = "returned"
  /\ IF hret = "true" THEN sclose' = sclose + 1 ELSE UNCHANGED sclose
  /\ hpc' = "deferred"
  /\ UNCHANGED <<input, inEnd, nread, out, wbuf, updated, hret, wfail, mPeer, sreset>>
  /\ UNCHANGED cvars

\* handleNewStream resetting the stream only when handleNewMessage failed.
hReset_OnlyOnFailure ==
  /\ hpc = "deferred"
  /\ IF hret = "false" THEN sreset' = sreset + 1 ELSE UNCHANGED sreset
  /\ hpc' = "end"
  /\ UNCHANGED <<input, inEnd, nread, out, wbuf, updated, hret, wfail, mPeer, sclose>>
  /\ UNCHANGED cvars

\* defer s.Reset()
hReset ==
  /\ hpc = "deferred"
  /\ sreset' = sreset + 1
  /\ hpc' = "end"
  /\ UNCHANGED <<input, inEnd, nread, out, wbuf, updated, hret, wfail, mPeer, sclose>>
  /\ UNCHANGED cvars

handleNewStream == hStart \/ handleNewMessage \/ hClose \/ hReset

ServerNext == handleNewStream

ServerSpec == Init /\ [][ServerNext]_vars

Next == ClientNext \/ ServerNext

Spec == Init /\ [][Next]_vars

\* ================================================================ claims
\* Call c, or the goroutine it detached, still owns the stream ps[c].
Holds(c) ==
  /\ ps[c] # NoSession
  /\ \/ pc[c] \in {"write", "select", "onReply"}
     \/ cont[c] \in {"waiting", "onReply"}

Holders(s) == {c \in Calls : Holds(c) /\ ps[c] = s}

\* Requests written on stream s whose reply has not been received.
InFlight(s) == {c \in Calls : ps[c] = s /\ replyChan[c] \in {"empty", "value"}}

Pooled == UNION {poolIdle(streamPool, p) : p \in Peers}

\* A write error (request or send failed) or a read error (the reply channel
\* closed without a value) occurred on stream s.
Errored(s) ==
  \E c \in Calls : ps[c] = s /\ (ret[c] = "writeErr" \/ replyChan[c] = "closed")

\* C1: a sendRequest call that returned (reply, nil) has put its stream into the
\* pool exactly once, itself (no goroutine was detached, no reset), and no
\* longer owns it: the stream is idle, evicted, or owned by a later call.
C1_ReplyPutOnce ==
  \A c \in Calls :
    (pc[c] = "done" /\ ret[c] = "reply") =>
      /\ fx[c].put = 1
      /\ fx[c].reset = 0
      /\ cont[c] = "none"
      /\ ~Holds(c)
      /\ (sstate[ps[c]] = "out" => Holders(ps[c]) # {})

C1_Witness ==
  \E c \in Calls : pc[c] = "done" /\ ret[c] = "reply" /\ ps[c] \in Pooled

\* A stream on which a write or read error occurred is destroyed and not in the
\* pool, and no call that met the error has put it.
C3_ErroredNotPooled ==
  \A s \in Sessions :
    Errored(s) =>
      /\ s \notin Pooled
      /\ sstate[s] = "destroyed"
      /\ \A c \in Calls :
           (ps[c] = s /\ (ret[c] \in {"writeErr", "streamErr"} \/ replyChan[c] = "closed"))
             => fx[c].put = 0

\* A pooled stream was put by a call that completed an exchange on it.
C3_PutOnlyAfterSuccess ==
  \A s \in Sessions :
    (s \in Pooled /\ sstate[s] = "idle") =>
      \E c \in Calls :
        /\ ps[c] = s
        /\ fx[c].put = 1
        /\ \/ replyChan[c] = "drained"
           \/ (op[c] = "sendMessage" /\ ret[c] = "nil")

\* C3: a stream on which a write or read error occurred is never in the pool
\* afterwards, put neither by sendRequest, nor by its goroutine, nor by
\* sendMessage; a stream is in the pool only after a successful exchange on it
\* (a received reply, or a send that returned nil).
C3_NoPutAfterError == C3_ErroredNotPooled /\ C3_PutOnlyAfterSuccess

\* A stream that served one call, went back to the pool, was taken again and
\* then failed.
C3_Witness ==
  \E c, d \in Calls :
    /\ c # d
    /\ ps[c] = ps[d]
    /\ fx[c].put = 1
    /\ (ret[d] = "writeErr" \/ (replyChan[d] = "closed" /\ cont[d] = "done"))

C7_ExclusiveOwnership ==
  \A s \in Sessions :
    /\ Cardinality(Holders(s)) <= 1
    /\ Cardinality(InFlight(s)) <= 1
    /\ s \in Pooled => (sstate[s] = "idle" /\ Holders(s) = {} /\ InFlight(s) = {})
    /\ sstate[s] = "out" => Cardinality(Holders(s)) = 1

\* Two calls to the same peer, both with a request in flight, on two streams.
C7_Witness ==
  \E c, d \in Calls :
    /\ c # d
    /\ cpeer[c] = cpeer[d]
    /\ pc[c] = "select" /\ pc[d] = "select"
    /\ ps[c] # ps[d]

\* A call that leaves its select while its context is cancelled and the reply
\* channel is still empty returns the cancellation error in that step, with the
\* reply still outstanding, no side effect, and a goroutine left waiting.
C2_CancelStep ==
  \A c \in Calls :
    (pc[c] = "select" /\ ctxDone[c] /\ replyChan[c] = "empty" /\ pc'[c] # "select") =>
      /\ pc'[c] = "done"
      /\ ret'[c] = "ctxErr"
      /\ cont'[c] = "waiting"
      /\ replyChan'[c] = "empty"
      /\ fx'[c] = fx[c]

\* The goroutine that received a late reply has put the stream back, updated
\* the peer and recorded the latency, once each.
C2_LateReplyDone ==
  \A c \in Calls :
    (ret[c] = "ctxErr" /\ cont[c] = "done" /\ replyChan[c] = "drained") =>
      (fx[c].put = 1 /\ fx[c].upd = 1 /\ fx[c].lat = 1)

\* C2: a call whose context is cancelled before a reply is on the channel
\* returns the cancellation error without waiting for the reply (and it does
\* return); when the reply arrives later, the detached goroutine still puts the
\* stream back into the pool, updates the peer and records the latency.
C2_CancelThenLateReply ==
  /\ [][C2_CancelStep]_vars
  /\ []C2_LateReplyDone
  /\ \A c \in Calls : (pc[c] = "select" /\ ctxDone[c]) ~> (pc[c] = "done")
  /\ \A c \in Calls :
       (ret[c] = "ctxErr" /\ replyChan[c] = "value") ~>
         (cont[c] = "done" /\ fx[c].put = 1 /\ fx[c].upd = 1 /\ fx[c].lat = 1)

\* The reply arrived after the call had returned the cancellation error, and
\* the goroutine has finished.
C2_Witness ==
  \E c \in Calls :
    /\ ret[c] = "ctxErr" /\ cont[c] = "done" /\ replyChan[c] = "drained"
    /\ fx[c].recv = 0 /\ fx[c].crecv = 1 /\ ps[c] \in Pooled

C6_OneReceive ==
  \A c \in Calls :
    /\ fx[c].crecv <= 1
    /\ cont[c] = "none" => fx[c].crecv = 0
    /\ cont[c] = "waiting" => (fx[c].crecv = 0 /\ ret[c] = "ctxErr")
    /\ cont[c] \in {"onReply", "done"} => fx[c].crecv = 1
    /\ (cont[c] = "waiting" /\ replyChan[c] \in {"value", "closed"})
         => ENABLED goReceive(c)

\* C6: the detached goroutine makes exactly one receive on the reply channel,
\* waits on nothing but that channel, and terminates once the channel yields or
\* closes, so no goroutine stays alive for ever.
C6_GoroutineTerminates ==
  /\ []C6_OneReceive
  /\ \A c \in Calls : (cont[c] = "waiting") ~> (cont[c] = "done")

\* Every call has detached a goroutine and every goroutine has ended.
C6_Witness ==
  \A c \in Calls : cont[c] = "done" /\ fx[c].crecv = 1

\* A call blocks nowhere but in its select: getStream, newStream, the write and
\* onReply can always go on, whatever the other calls and the pool do.
C8_NeverBlocked ==
  \A c \in Calls :
    pc[c] \in {"getStream", "newStream", "write", "onReply"} =>
      ENABLED (getStream(c) \/ newStream(c) \/ sendRequest(c) \/ send(c))

\* C8: concurrent sendRequest calls, more of them than peers, never wait on
\* each other's stream or on the pool, and under fair scheduling, with reply
\* channels that yield or close, every one of them returns.
C8_AllCallsReturn ==
  /\ []C8_NeverBlocked
  /\ \A c \in Calls : (op[c] = "sendRequest") ~> (pc[c] = "done")

\* More calls than peers: two sendRequest calls to one peer ran at the same
\* time (each on its own stream) and both returned a reply.
C8_Witness ==
  \E c, d \in Calls :
    /\ c # d
    /\ op[c] = "sendRequest" /\ op[d] = "sendRequest"
    /\ cpeer[c] = cpeer[d]
    /\ ps[c] # ps[d]
    /\ ret[c] = "reply" /\ ret[d] = "reply"

\* Every frame of the input has a handler that succeeds.
AllHandled(i) == \A n \in 1..Len(i) : i[n] \in {"resp", "noresp"}

\* The indices of the frames of i whose handler returns a response, in order.
RespIdx(i) == SelectSeq([n \in 1..Len(i) |-> n], LAMBDA n : i[n] = "resp")

C10_UnknownTypeEnds ==
  \A n \in 1..nread :
    input[n] = "unknown" =>
      /\ n = nread
      /\ hpc # "dispatch" => (hret = "false" /\ hpc \in {"returned", "deferred", "end"})
      /\ out = RespIdx(SubSeq(input, 1, n - 1))
      /\ wbuf = <<>>
      /\ \A m \in 1..Len(updated) : updated[m] # n

C10_Witness ==
  /\ nread = 3
  /\ input[nread] = "unknown"
  /\ hret = "false"
  /\ out = <<1, 2>>

\* C11, as stated: when handleNewStream is over, a stream whose loop ended
\* cleanly has been closed for writes and not reset, and a stream whose loop
\* ended abnormally has been reset and not closed.
C11_CloseOrReset ==
  hpc = "end" =>
    IF hret = "true" THEN (sclose = 1 /\ sreset = 0)
                     ELSE (sreset = 1 /\ sclose = 0)

\* C20: handleNewStream resets the inbound stream exactly once on every path,
\* as its last step, after the Close of a cleanly ended loop; Close is called
\* if and only if handleNewMessage returned true.
C20_ResetOnceAfterClose ==
  /\ sreset <= 1
  /\ sclose <= 1
  /\ hpc = "end" => sreset = 1
  /\ hpc # "end" => sreset = 0
  /\ hpc \in {"deferred", "end"} => (sclose = 1 <=> hret = "true")
  /\ hpc \notin {"deferred", "end"} => sclose = 0

\* A cleanly ended loop: the stream was closed, then reset.
C20_Witness ==
  hpc = "end" /\ hret = "true" /\ sclose = 1 /\ sreset = 1

\* C12: sendMessage, once it has a stream, can always go on to send (it waits
\* for nothing), never has a reply channel, a select or a goroutine; when send
\* succeeded it has put the stream exactly once, made no reset and returned
\* nil; when send failed it has reset the stream, made no put, and returned the
\* send error, and the stream is not in the pool.
C12_SendMessage ==
  \A c \in Calls :
    op[c] = "sendMessage" =>
      /\ replyChan[c] = "nil"
      /\ cont[c] = "none"
      /\ pc[c] \notin {"select", "onReply"}
      /\ fx[c].recv = 0 /\ fx[c].crecv = 0 /\ fx[c].upd = 0 /\ fx[c].lat = 0
      /\ pc[c] = "write" => ENABLED send(c)
      /\ pc[c] = "done" => ret[c] \in {"nil", "writeErr", "dialErr"}
      /\ ret[c] = "nil" => (fx[c].put = 1 /\ fx[c].reset = 0)
      /\ ret[c] = "writeErr" =>
           /\ fx[c].reset = 1
           /\ fx[c].put = 0
           /\ sstate[ps[c]] = "destroyed"
           /\ ps[c] \notin Pooled

\* One sendMessage succeeded and pooled its stream; a second one took that
\* stream and failed on it.
C12_Witness ==
  \E c, d \in Calls :
    /\ op[c] = "sendMessage" /\ op[d] = "sendMessage"
    /\ ret[c] = "nil" /\ ret[d] = "writeErr"
    /\ ps[c] = ps[d]

\* C13, as stated: the wait for the next request is bounded: a loop that is
\* reading can always leave the read, by a frame, end-of-input, a read error or
\* the expiry of the read timeout.
C13_ReadNeverWaitsForGood ==
  hpc = "read" => ENABLED hRead

\* C13, amended: handleNewMessage puts no timeout on its reads: on a stream that
\* stays open and silent it stays in ReadMsg, and it has returned only if a
\* handler was missing or failed or a response write failed.
C13_NoReadTimeout ==
  inEnd = "idle" =>
    /\ (hpc = "read" /\ nread = Len(input)) => ~ENABLED hRead
    /\ hret # "true"
    /\ hret = "false" =>
         \/ wfail
         \/ \E n \in 1..nread : input[n] \in {"herr", "unknown"}

\* The loop answered a request and now waits on the silent stream.
C13_Witness ==
  /\ inEnd = "idle"
  /\ hpc = "read"
  /\ nread = Len(input)
  /\ out # <<>>

\* C14: when the frame after the input declares a length above the maximum, the
\* read fails: the loop that reaches it can leave the read, returns false
\* (never true), has dispatched only the frames before it and has flushed
\* responses for those alone.
C14_OversizeFrame ==
  inEnd = "toolarge" =>
    /\ hpc = "read" => ENABLED hRead
    /\ hret # "true"
    /\ nread <= Len(input)
    /\ Len(updated) <= Len(input)
    /\ (hret # "none" /\ AllHandled(input) /\ ~wfail) =>
         /\ hret = "false"
         /\ nread = Len(input)
         /\ out = RespIdx(input)
         /\ wbuf = <<>>

C14_Witness ==
  /\ inEnd = "toolarge"
  /\ hret = "false"
  /\ AllHandled(input)
  /\ ~wfail
  /\ out # <<>>

\* C15: a sendRequest call whose request failed has returned that error with no
\* reply, having reset the stream once and done nothing else: no put, no reply
\* channel, no select on the channel or the context, no goroutine, no peer
\* update, no latency record; the stream is destroyed and not in the pool.
C15_RequestError ==
  \A c \in Calls :
    (op[c] = "sendRequest" /\ ret[c] = "writeErr") =>
      /\ pc[c] = "done"
      /\ fx[c] = [NoFx EXCEPT !.reset = 1]
      /\ replyChan[c] = "nil"
      /\ ~ctxDone[c]
      /\ cont[c] = "none"
      /\ sstate[ps[c]] = "destroyed"
      /\ ps[c] \notin Pooled

\* The request failed on a stream that an earlier call had put into the pool.
C15_Witness ==
  \E c, d \in Calls :
    /\ op[c] = "sendRequest" /\ ret[c] = "writeErr"
    /\ c # d /\ ps[d] = ps[c] /\ fx[d].put = 1

\* The steps of getStream: it goes on to newStream only when streamPool.get
\* found no idle stream for the peer; with an idle stream it takes one, which
\* leaves the pool; a stream from newStream is a new one; and a failed
\* newStream returns its error with the pool, the streams, the counters and
\* the channels as they were.
C16_Step ==
  \A c \in Calls :
    /\ (pc[c] = "getStream" /\ pc'[c] = "newStream") =>
         /\ poolIdle(streamPool, cpeer[c]) = {}
         /\ streamPool' = streamPool
    /\ (pc[c] = "getStream" /\ poolIdle(streamPool, cpeer[c]) # {} /\ pc'[c] # "getStream") =>
         /\ pc'[c] = "write"
         /\ ps'[c] \in poolIdle(streamPool, cpeer[c])
         /\ ps'[c] \notin poolIdle(streamPool', cpeer[c])
         /\ sstate'[ps'[c]] = "out"
    /\ (pc[c] = "newStream" /\ pc'[c] = "write") =>
         /\ sstate[ps'[c]] = "unborn"
         /\ streamPool' = streamPool
    /\ (pc[c] = "newStream" /\ pc'[c] = "done") =>
         /\ ret'[c] = "dialErr"
         /\ streamPool' = streamPool
         /\ sstate' = sstate
         /\ fx' = fx
         /\ replyChan' = replyChan
         /\ ps' = ps

\* A call that returned the newStream error has no stream, sent nothing and
\* made no put and no reset.
C16_DialErrClean ==
  \A c \in Calls :
    ret[c] = "dialErr" =>
      (pc[c] = "done" /\ ps[c] = NoSession /\ fx[c] = NoFx /\ replyChan[c] = "nil")

\* C16: sendRequest and sendMessage open a new stream only when the pool had no
\* idle stream for the peer at their get; an idle pooled stream is taken in
\* preference and leaves the pool; when newStream fails the call returns that
\* error and leaves the pool unchanged, with no request sent, no put, no reset.
C16_PoolFirst == [][C16_Step]_vars /\ []C16_DialErrClean

\* newStream failed for one peer while the pool held an idle stream of another.
C16_Witness ==
  \E c \in Calls : ret[c] = "dialErr" /\ Pooled # {}

\* The elements of a sequence.
Elems(q) == {q[m] : m \in 1..Len(q)}

\* C17: updateFromMessage has run exactly once, in order, for every dispatched
\* request whose handler returned without error, response or not, and for no
\* other; it has run for a request before its response is written; a request
\* whose handler failed is the last one read, the loop returns false after it
\* and no response is written for it.
C17_UpdatePerHandledRequest ==
  LET dispatched == IF hpc = "dispatch" THEN nread - 1 ELSE nread
  IN /\ updated = SelectSeq([m \in 1..dispatched |-> m],
                            LAMBDA m : input[m] \in {"resp", "noresp"})
     /\ hpc \in {"write", "flush"} =>
          (updated # <<>> /\ updated[Len(updated)] = nread)
     /\ (Elems(out) \cup Elems(wbuf)) \subseteq Elems(updated)
     /\ (updated # <<>> /\ SupportsProtocols(mPeer)) => mPeer \in rt
     /\ \A n \in 1..nread :
          input[n] = "herr" =>
            /\ n = nread
            /\ hpc # "dispatch" => hret = "false"
            /\ n \notin Elems(out) \cup Elems(wbuf)

\* No response, response, handler error: two updates, one frame, return false.
C17_Witness ==
  /\ input = <<"noresp", "resp", "herr">>
  /\ hret = "false"
  /\ updated = <<1, 2>>
  /\ out = <<2>>

\* The step in which sendRequest returns the cancellation error changes neither
\* the pool, nor any stream, nor any counter, nor the channel, and the call had
\* made no put and no reset before it; after it, the counters of the call
\* change only in steps of its detached goroutine, and the stream the goroutine
\* holds changes only by the goroutine's put or by the stream's own failure.
C18_Step ==
  \A c \in Calls :
    /\ (pc[c] = "select" /\ ret'[c] = "ctxErr") =>
         /\ streamPool' = streamPool
         /\ sstate' = sstate
         /\ replyChan' = replyChan
         /\ fx' = fx
         /\ fx[c] = NoFx
         /\ cont'[c] = "waiting"
    /\ (ret[c] = "ctxErr" /\ fx'[c] # fx[c]) =>
         (cont[c] \in {"waiting", "onReply"} /\ cont'[c] # cont[c])
    /\ (ret[c] = "ctxErr" /\ cont[c] \in {"waiting", "onReply"}
          /\ sstate'[ps[c]] # sstate[ps[c]]) =>
         \/ (cont[c] = "onReply" /\ cont'[c] = "done" /\ sstate'[ps[c]] = "idle")
         \/ (replyChan[c] = "empty" /\ replyChan'[c] = "closed"
               /\ sstate'[ps[c]] = "destroyed")

\* A call that returned the cancellation error never resets its stream and
\* never receives from the channel itself; while its goroutine waits nothing
\* has been done for the call and the stream is not in the pool.
C18_AfterCancel ==
  \A c \in Calls :
    ret[c] = "ctxErr" =>
      /\ fx[c].reset = 0
      /\ fx[c].recv = 0
      /\ cont[c] # "none"
      /\ cont[c] = "waiting" => (fx[c] = NoFx /\ ps[c] \notin Pooled)

\* C18: when sendRequest returns the cancellation error it has neither reset
\* the stream nor put it into the pool, and the pool is unchanged; the stream's
\* fate is changed later, by the detached goroutine alone.
C18_CancelKeepsStream == [][C18_Step]_vars /\ []C18_AfterCancel

\* The call has returned the cancellation error; its stream is still checked
\* out with the reply outstanding, beside a pooled stream of another call.
C18_Witness ==
  \E c \in Calls :
    /\ ret[c] = "ctxErr" /\ cont[c] = "waiting" /\ replyChan[c] = "empty"
    /\ sstate[ps[c]] = "out"
    /\ Pooled # {}

\* C19: for one sendRequest call the reply is received at most once, by the
\* call or by its goroutine, and onReply runs at most once: one put, one peer
\* update and one latency record, made together, either by the call (which
\* then returned the reply and detached nothing) or by the goroutine (after
\* the call returned the cancellation error), never by both; a call that reset
\* its stream made no put.
C19_OnReplyAtMostOnce ==
  \A c \in Calls :
    op[c] = "sendRequest" =>
      /\ fx[c].put <= 1
      /\ fx[c].lat = fx[c].put
      /\ fx[c].upd = fx[c].put
      /\ fx[c].recv + fx[c].crecv <= 1
      /\ ~(fx[c].reset >= 1 /\ fx[c].put >= 1)
      /\ fx[c].put = 1 =>
           \/ (ret[c] = "reply" /\ cont[c] = "none"
                 /\ fx[c].recv = 1 /\ fx[c].crecv = 0)
           \/ (ret[c] = "ctxErr" /\ cont[c] = "done"
                 /\ fx[c].recv = 0 /\ fx[c].crecv = 1)

\* Reply and cancellation were both ready in the select, and the reply case
\* was taken.
C19_Witness ==
  \E c \in Calls : ret[c] = "reply" /\ ctxDone[c] /\ fx[c].put = 1

====
